---- MODULE Spec2Model ----
(***************************************************************************)
(* Model of app.py, the Streamlit dashboard over the Cannes dataset.       *)
(*                                                                         *)
(* One run of the script is the chain                                      *)
(*   load_data -> sidebar filters -> tab1 -> tab2 -> co-productions ->     *)
(*   tab3 -> tab4 -> footer                                                *)
(* and every user interaction re-runs the script from the top (Rerun).     *)
(* Text cells are sequences of one-character strings, so that strip,       *)
(* split and title are computed character by character.                    *)
(***************************************************************************)
EXTENDS Integers, Sequences, FiniteSets, TLC

\* ------------------------------------------------------------------ bounds
\* longest countries cell enumerated in the parsing slice of the inputs
MaxStrLen == 3
\* most rows of a dataset
MaxRecords == 2
\* producers named in the longest producers cell (one more than the top-N cut)
MaxProducers == 11

\* ------------------------------------------------------------- text cells
\* characters of a countries cell
Chars == {"a", "A", "b", ",", " "}

\* a missing cell (NaN); no string is equal to it
NA == <<"NaN">>

isna(x) == x = NA

IsLower(c) == c \in {"a", "b"}

IsUpper(c) == c \in {"A", "B"}

IsCased(c) == IsLower(c) \/ IsUpper(c)

ToUpper(c) == CASE c = "a" -> "A" [] c = "b" -> "B" [] OTHER -> c

ToLower(c) == CASE c = "A" -> "a" [] c = "B" -> "b" [] OTHER -> c

IsSpace(c) == c = " "

\* str.strip(): leading and trailing whitespace removed
RECURSIVE lstrip(_)
lstrip(s) == IF s # <<>> /\ IsSpace(Head(s)) THEN lstrip(Tail(s)) ELSE s

RECURSIVE rstrip(_)
rstrip(s) ==
    IF s # <<>> /\ IsSpace(s[Len(s)]) THEN rstrip(SubSeq(s, 1, Len(s) - 1)) ELSE s

strip(s) == rstrip(lstrip(s))

\* str.split(','): k commas give k+1 parts, empty parts kept
RECURSIVE SplitFrom(_, _, _)
SplitFrom(s, i, cur) ==
    IF i > Len(s) THEN <<cur>>
    ELSE IF s[i] = "," THEN <<cur>> \o SplitFrom(s, i + 1, <<>>)
    ELSE SplitFrom(s, i + 1, Append(cur, s[i]))

split(s) == SplitFrom(s, 1, <<>>)

\* str.title(): a cased character is upper-cased when the character before
\* it is not cased, lower-cased when it is
RECURSIVE TitleFrom(_, _, _)
TitleFrom(s, i, prevCased) ==
    IF i > Len(s) THEN <<>>
    ELSE <<IF prevCased THEN ToLower(s[i]) ELSE ToUpper(s[i])>>
         \o TitleFrom(s, i + 1, IsCased(s[i]))

title(s) == TitleFrom(s, 1, FALSE)

\* [f(x) for x in seq]
RECURSIVE MapStripTitle(_)
MapStripTitle(parts) ==
    IF parts = <<>> THEN <<>>
    ELSE <<title(strip(Head(parts)))>> \o MapStripTitle(Tail(parts))

NonBlank(part) == strip(part) # <<>>

get_countries_from_string(country_string) ==
    IF isna(country_string) \/ strip(country_string) = <<>> THEN <<>>
    ELSE MapStripTitle(SelectSeq(split(country_string), NonBlank))

\* set of the elements of a sequence
Range(seq) == {seq[i] : i \in 1..Len(seq)}

\* sum of f over the finite set S
RECURSIVE SetSum(_, _)
SetSum(f, S) ==
    IF S = {} THEN 0
    ELSE LET x == CHOOSE y \in S : TRUE IN f[x] + SetSum(f, S \ {x})

\* ------------------------------------------------------- the source file
\* a missing cell of a column whose values are not parsed (section)
NoValue == "NaN"

Years == {2020, 2021}

FirstYear == CHOOSE y \in Years : \A z \in Years : y <= z

Sections == {"s1", "s2"}

\* every countries cell of at most n characters
Strings(n) == UNION {[1..k -> Chars] : k \in 0..n}

\* the countries cells of the multi-row slices: missing, empty, blank, one
\* country, two countries
SmallCells == {NA, <<>>, <<" ">>, <<"a">>, <<"b", ",", "a">>}

ProducerName(i) == ToString(i)

\* the producers cell "1,2,...,k"
RECURSIVE Listing(_)
Listing(k) ==
    IF k = 0 THEN <<>>
    ELSE IF k = 1 THEN <<ProducerName(1)>>
    ELSE Listing(k - 1) \o <<",", ProducerName(k)>>

\* the producers cells: missing, empty, "2, 1 ,2", and MaxProducers producers
ProducerCells ==
    {NA, <<>>, <<"2", ",", " ", "1", " ", ",", "2">>, Listing(MaxProducers)}

FileRow(y, c, s, pn, pk) ==
    [year |-> y, countries |-> c, section |-> s,
     productoras_normalizadas |-> pn, productoras_consolidadas |-> pk]

\* sequences over S of length lo..hi
SeqsOf(S, lo, hi) == UNION {[1..k -> S] : k \in lo..hi}

\* the file is missing, has no 'countries' column, or has no rows
StructuralFiles ==
    { [exists |-> FALSE, columns |-> {}, rows |-> <<>>],
      [exists |-> TRUE, columns |-> {"section"},
       rows |-> <<FileRow(FirstYear, NA, "s1", NA, NA)>>],
      [exists |-> TRUE, columns |-> {"countries"}, rows |-> <<>>] }

\* one row, every countries cell up to MaxStrLen characters
ParsingFiles ==
    { [exists |-> TRUE, columns |-> {"countries"},
       rows |-> <<FileRow(FirstYear, c, NoValue, NA, NA)>>] :
      c \in Strings(MaxStrLen) \cup {NA} }

\* up to MaxRecords rows over both years
CountryFiles ==
    { [exists |-> TRUE, columns |-> {"countries"}, rows |-> r] :
      r \in SeqsOf({FileRow(y, c, NoValue, NA, NA) :
                       y \in Years, c \in SmallCells}, 1, MaxRecords) }

\* a section column
SectionFiles ==
    { [exists |-> TRUE, columns |-> {"countries", "section"}, rows |-> r] :
      r \in SeqsOf({FileRow(y, <<"a">>, s, NA, NA) :
                       y \in Years, s \in Sections \cup {NoValue}},
                   1, MaxRecords) }

\* a producers column
ProducerFiles ==
    { [exists |-> TRUE, columns |-> {"countries", "productoras_normalizadas"},
       rows |-> r] :
      r \in SeqsOf({FileRow(y, c, NoValue, p, NA) :
                       y \in Years, c \in {<<"a">>, <<"b">>}, p \in ProducerCells},
                   1, MaxRecords) }

\* every combination of the two producers columns, with and without countries
ColumnFiles ==
    { [exists |-> TRUE, columns |-> {"countries"} \cup pcols,
       rows |-> <<FileRow(FirstYear, c, NoValue,
                          IF "productoras_normalizadas" \in pcols
                          THEN <<"1">> ELSE NA,
                          IF "productoras_consolidadas" \in pcols
                          THEN <<"2">> ELSE NA)>>] :
      pcols \in SUBSET {"productoras_normalizadas", "productoras_consolidadas"},
      c \in {NA, <<"a">>} }

Files ==
    StructuralFiles \cup ParsingFiles \cup CountryFiles \cup SectionFiles
    \cup ProducerFiles \cup ColumnFiles

\* ---------------------------------------------------------------- state
VARIABLES
    file,                \* the spreadsheet on disk
    cache,               \* st.cache_data entry of load_data
    pc,                  \* position of the running script
    messages,            \* st.error / st.warning / st.info / st.success shown
    rendered,            \* views whose charts or tables were drawn
    df,                  \* base frame returned by load_data
    all_countries,       \* country vocabulary returned by load_data
    year_range,          \* slider value
    selected_countries,  \* multiselect value
    selected_section,    \* selectbox value
    filtered_df,         \* the filtered sub-selection
    df_line,             \* tab1: per-year sums of the selected flags
    df_percent,          \* tab1: per-year shares
    df_counts,           \* tab2: ranking of countries
    coprod_df,           \* histogram of num_countries
    avg_countries,       \* the charted per-year mean
    selected_country,    \* tab3 selectbox value
    top_productoras,     \* tab3 ranking
    detail               \* tab4 table

vars ==
    <<file, cache, pc, messages, rendered, df, all_countries, year_range,
      selected_countries, selected_section, filtered_df, df_line, df_percent,
      df_counts, coprod_df, avg_countries, selected_country, top_productoras,
      detail>>

NoCache == [filled |-> FALSE]

NoFrame == [columns |-> {}, rows |-> <<>>]

NoRange == <<>>

NoCountry == <<"None">>

\* the globals of a script run before any statement has executed
FreshRun ==
    /\ messages = {}
    /\ rendered = {}
    /\ df = NoFrame
    /\ all_countries = {}
    /\ year_range = NoRange
    /\ selected_countries = {}
    /\ selected_section = "Todas"
    /\ filtered_df = NoFrame
    /\ df_line = <<>>
    /\ df_percent = <<>>
    /\ df_counts = <<>>
    /\ coprod_df = <<>>
    /\ avg_countries = <<>>
    /\ selected_country = NoCountry
    /\ top_productoras = <<>>
    /\ detail = <<>>

Init ==
    /\ file \in Files
    /\ cache = NoCache
    /\ pc = "load"
    /\ FreshRun

\* --------------------------------------------------------------- load_data
\* the set of normalized country names of every non-missing countries cell
UniqueCountries(rows) ==
    UNION { Range(get_countries_from_string(rows[i].countries)) :
            i \in {j \in 1..Len(rows) : ~isna(rows[j].countries)} }

\* mutant of CountryFlag: the country is looked up among the raw parts
CountryFlagRaw(country, x) ==
    IF ~isna(x) /\ country \in Range(split(x)) THEN 1 ELSE 0

\* lambda x: 1 if country in get_countries_from_string(x) else 0
CountryFlag(country, x) ==
    IF country \in Range(get_countries_from_string(x)) THEN 1 ELSE 0

HasProducers(columns) ==
    "productoras_normalizadas" \in columns
    \/ "productoras_consolidadas" \in columns

\* the cell of the canonical producers column of a row
CanonicalProducers(columns, r) ==
    IF "productoras_normalizadas" \in columns THEN r.productoras_normalizadas
    ELSE IF "productoras_consolidadas" \in columns
    THEN r.productoras_consolidadas
    ELSE NA

LoadedRow(i, r, columns, unique_countries) ==
    LET flags == [c \in unique_countries |-> CountryFlag(c, r.countries)]
    IN  [idx |-> i,
         year |-> r.year,
         countries |-> r.countries,
         countries_for_analysis |-> r.countries,
         section |-> r.section,
         productoras_normalizadas |-> r.productoras_normalizadas,
         productoras_consolidadas |-> r.productoras_consolidadas,
         flags |-> flags,
         total_movies |-> SetSum(flags, unique_countries),
         productoras_consolidadas_normalized |-> CanonicalProducers(columns, r)]

\* the frame load_data returns for the rows and columns of the file
LoadedFrame(f, unique_countries) ==
    [columns |->
        f.columns \cup {"countries_for_analysis", "total_movies"}
        \cup (IF HasProducers(f.columns)
              THEN {"productoras_consolidadas_normalized"} ELSE {}),
     rows |->
        [i \in 1..Len(f.rows) |->
            LoadedRow(i, f.rows[i], f.columns, unique_countries)]]

\* mutant of LoadOutcome: the 'countries' column is not checked
LoadOutcomeLenient(f) == IF ~f.exists THEN "file_not_found" ELSE "ok"

\* lines 45-60: what the two checks of load_data decide for the file
LoadOutcome(f) ==
    IF ~f.exists THEN "file_not_found"
    ELSE IF "countries" \notin f.columns THEN "no_countries_column"
    ELSE "ok"

load_data ==
    /\ pc = "load"
    /\ IF cache.filled
       THEN \* st.cache_data returns the stored value and replays its messages
            /\ df' = cache.df
            /\ all_countries' = cache.all_countries
            /\ messages' = messages \cup {"success_file_found"}
            /\ pc' = "sidebar"
            /\ UNCHANGED cache
       ELSE IF LoadOutcome(file) = "file_not_found"
       THEN \* st.error, st.stop
            /\ messages' = messages \cup {"error_file_not_found"}
            /\ pc' = "stopped"
            /\ UNCHANGED <<df, all_countries, cache>>
       ELSE IF LoadOutcome(file) = "no_countries_column"
       THEN \* st.error, st.stop
            /\ messages' =
                messages \cup {"success_file_found", "error_no_countries_column"}
            /\ pc' = "stopped"
            /\ UNCHANGED <<df, all_countries, cache>>
       ELSE LET unique_countries == UniqueCountries(file.rows)
                frame == LoadedFrame(file, unique_countries)
            IN  /\ df' = frame
                /\ all_countries' = unique_countries
                /\ cache' = [filled |-> TRUE, df |-> frame,
                             all_countries |-> unique_countries]
                /\ messages' = messages \cup {"success_file_found"}
                /\ pc' = "sidebar"
    /\ UNCHANGED <<file, rendered, year_range, selected_countries,
                   selected_section, filtered_df, df_line, df_percent,
                   df_counts, coprod_df, avg_countries, selected_country,
                   top_productoras, detail>>

\* ------------------------------------------------------- sidebar filters
YearsOf(d) == {d.rows[i].year : i \in 1..Len(d.rows)}

MinYear(d) == CHOOSE y \in YearsOf(d) : \A z \in YearsOf(d) : y <= z

MaxYear(d) == CHOOSE y \in YearsOf(d) : \A z \in YearsOf(d) : y >= z

\* the values the range slider can return
YearRanges(d) ==
    {r \in (MinYear(d)..MaxYear(d)) \X (MinYear(d)..MaxYear(d)) : r[1] <= r[2]}

\* the options of the section selectbox
SectionOptions(d) ==
    IF "section" \in d.columns
    THEN {"Todas"} \cup ({d.rows[i].section : i \in 1..Len(d.rows)} \ {NoValue})
    ELSE {"Todas"}

\* the rows i..Len(rows) whose mask entry is TRUE
RECURSIVE MaskedFrom(_, _, _)
MaskedFrom(rows, mask, i) ==
    IF i > Len(rows) THEN <<>>
    ELSE (IF mask[i] THEN <<rows[i]>> ELSE <<>>) \o MaskedFrom(rows, mask, i + 1)

\* df[mask]: a new frame holding the rows whose mask entry is TRUE
BooleanIndex(d, mask) ==
    [columns |-> d.columns, rows |-> MaskedFrom(d.rows, mask, 1)]

\* mutant of ApplyFilters: the upper end of the year range is excluded
ApplyFiltersExclusive(d, yr, section) ==
    LET byYear ==
            BooleanIndex(d, [i \in 1..Len(d.rows) |->
                d.rows[i].year >= yr[1] /\ d.rows[i].year < yr[2]])
    IN  IF "section" \in d.columns /\ section # "Todas"
        THEN BooleanIndex(byYear, [i \in 1..Len(byYear.rows) |->
                byYear.rows[i].section = section])
        ELSE byYear

ApplyFilters(d, yr, section) ==
    LET byYear ==
            BooleanIndex(d, [i \in 1..Len(d.rows) |->
                d.rows[i].year >= yr[1] /\ d.rows[i].year <= yr[2]])
    IN  IF "section" \in d.columns /\ section # "Todas"
        THEN BooleanIndex(byYear, [i \in 1..Len(byYear.rows) |->
                byYear.rows[i].section = section])
        ELSE byYear

Sidebar ==
    /\ pc = "sidebar"
    /\ IF df.rows = <<>>
       THEN \* int(df["year"].min()) of an empty column raises ValueError
            /\ pc' = "crashed"
            /\ UNCHANGED <<year_range, selected_countries, selected_section,
                           filtered_df>>
       ELSE \E yr \in YearRanges(df), sel \in SUBSET all_countries,
               sec \in SectionOptions(df) :
                /\ year_range' = yr
                /\ selected_countries' = sel
                /\ selected_section' = sec
                /\ filtered_df' = ApplyFilters(df, yr, sec)
                /\ pc' = "tab1"
    /\ UNCHANGED <<file, cache, messages, rendered, df, all_countries,
                   df_line, df_percent, df_counts, coprod_df, avg_countries,
                   selected_country, top_productoras, detail>>

\* ------------------------------------------------------------------ tab1
\* the rows of year y
RowsOfYear(rows, y) == SelectSeq(rows, LAMBDA r : r.year = y)

\* sum of the flag column c over rows
RECURSIVE FlagSum(_, _)
FlagSum(rows, c) ==
    IF rows = <<>> THEN 0 ELSE Head(rows).flags[c] + FlagSum(Tail(rows), c)

\* filtered_df.groupby("year")[selected_countries].sum()
GroupSum(d, cols) ==
    [y \in YearsOf(d) |-> [c \in cols |-> FlagSum(RowsOfYear(d.rows, y), c)]]

\* df_percent[selected_countries].sum(axis=1)
RowSums(line, cols) == [y \in DOMAIN line |-> SetSum(line[y], cols)]

\* mutant of Percent: the shares are not scaled by 100
PercentUnscaled(line, row_sums, cols) ==
    [y \in DOMAIN line |->
        [c \in cols |-> [num |-> line[y][c], den |-> row_sums[y]]]]

\* each share is count / row_sum * 100, kept as the exact fraction num/den
\* (den = 0 is the NaN of 0/0)
Percent(line, row_sums, cols) ==
    [y \in DOMAIN line |->
        [c \in cols |-> [num |-> line[y][c] * 100, den |-> row_sums[y]]]]

Tab1 ==
    /\ pc = "tab1"
    /\ IF selected_countries # {}
       THEN LET line == GroupSum(filtered_df, selected_countries)
                row_sums == RowSums(line, selected_countries)
            IN  /\ df_line' = line
                /\ df_percent' = Percent(line, row_sums, selected_countries)
                /\ rendered' = rendered \cup {"tab1"}
                /\ UNCHANGED messages
       ELSE /\ messages' = messages \cup {"warning_select_a_country"}
            /\ UNCHANGED <<df_line, df_percent, rendered>>
    /\ pc' = "tab2"
    /\ UNCHANGED <<file, cache, df, all_countries, year_range,
                   selected_countries, selected_section, filtered_df,
                   df_counts, coprod_df, avg_countries, selected_country,
                   top_productoras, detail>>

\* ------------------------------------------------------------------ tab2
\* collections.Counter: keys in first-seen order, each with its count
RECURSIVE CounterFrom(_, _)
CounterFrom(items, acc) ==
    IF items = <<>> THEN acc
    ELSE LET x == Head(items)
             seen == {i \in 1..Len(acc) : acc[i].key = x}
         IN  CounterFrom(Tail(items),
                 IF seen = {} THEN Append(acc, [key |-> x, n |-> 1])
                 ELSE [i \in 1..Len(acc) |->
                          IF i \in seen THEN [key |-> x, n |-> acc[i].n + 1]
                          ELSE acc[i]])

Counter(items) == CounterFrom(items, <<>>)

\* all_countries.extend(...) over the non-missing cells of the column
RECURSIVE AllCountryTokens(_)
AllCountryTokens(rows) ==
    IF rows = <<>> THEN <<>>
    ELSE (IF isna(Head(rows).countries_for_analysis) THEN <<>>
          ELSE get_countries_from_string(Head(rows).countries_for_analysis))
         \o AllCountryTokens(Tail(rows))

count_countries(d) == Counter(AllCountryTokens(d.rows))

\* sorting by count, descending, equal counts keeping their order
RECURSIVE InsertDesc(_, _)
InsertDesc(sorted, x) ==
    IF sorted = <<>> THEN <<x>>
    ELSE IF Head(sorted).n >= x.n
    THEN <<Head(sorted)>> \o InsertDesc(Tail(sorted), x)
    ELSE <<x>> \o sorted

RECURSIVE SortDescFrom(_, _)
SortDescFrom(items, acc) ==
    IF items = <<>> THEN acc
    ELSE SortDescFrom(Tail(items), InsertDesc(acc, Head(items)))

SortDesc(items) == SortDescFrom(items, <<>>)

\* sort_values(ascending=False) with the default, unstable sort: every
\* non-increasing arrangement of the rows is a possible result
DescOrders(items) ==
    LET n == Len(items)
        perms == {q \in [1..n -> 1..n] : \A i, j \in 1..n : i # j => q[i] # q[j]}
    IN  {o \in {[i \in 1..n |-> items[q[i]]] : q \in perms} :
            \A i \in 1..(n - 1) : o[i].n >= o[i + 1].n}

\* seq[:n]
FirstN(seq, n) == SubSeq(seq, 1, IF Len(seq) < n THEN Len(seq) ELSE n)

TopCountries == 15

\* the rows of the bar chart: df_counts.head(15)
fig_bars == FirstN(df_counts, TopCountries)

Tab2 ==
    /\ pc = "tab2"
    /\ df_counts' \in DescOrders(count_countries(filtered_df))
    /\ rendered' = rendered \cup {"tab2"}
    /\ pc' = "coprod"
    /\ UNCHANGED <<file, cache, messages, df, all_countries, year_range,
                   selected_countries, selected_section, filtered_df, df_line,
                   df_percent, coprod_df, avg_countries, selected_country,
                   top_productoras, detail>>

\* -------------------------------------------------------- co-productions
\* frame[name] = values: the column is written to that frame, row by row
SetColumn(d, name, values) ==
    [columns |-> d.columns \cup {name},
     rows |-> [i \in 1..Len(d.rows) |-> (name :> values[i]) @@ d.rows[i]]]

\* lambda x: 0 if pd.isna(x) else len(get_countries_from_string(x))
num_countries(x) == IF isna(x) THEN 0 ELSE Len(get_countries_from_string(x))

\* notna() & (!= "")
has_country_data(x) == ~isna(x) /\ x # <<>>

WithCoprodColumns(d) ==
    SetColumn(
        SetColumn(d, "num_countries",
            [i \in 1..Len(d.rows) |->
                num_countries(d.rows[i].countries_for_analysis)]),
        "has_country_data",
        [i \in 1..Len(d.rows) |->
            has_country_data(d.rows[i].countries_for_analysis)])

RECURSIVE NumCountriesSum(_)
NumCountriesSum(rows) ==
    IF rows = <<>> THEN 0
    ELSE Head(rows).num_countries + NumCountriesSum(Tail(rows))

\* groupby('year')['num_countries'].mean(), each mean kept as sum and count
GroupMean(d) ==
    [y \in YearsOf(d) |->
        [sum |-> NumCountriesSum(RowsOfYear(d.rows, y)),
         count |-> Len(RowsOfYear(d.rows, y))]]

\* line 262: the mean over the rows flagged has_country_data
avg_countries_with_data(d) ==
    GroupMean(BooleanIndex(d, [i \in 1..Len(d.rows) |->
                                  d.rows[i].has_country_data]))

\* line 295: the mean over every filtered row, assigned to the same name
\* after line 262 and the one the line chart draws
avg_countries_charted(d) == GroupMean(d)

\* value_counts().sort_index()
ValueCounts(d) ==
    [n \in {d.rows[i].num_countries : i \in 1..Len(d.rows)} |->
        Cardinality({i \in 1..Len(d.rows) : d.rows[i].num_countries = n})]

\* mutant of Coprod: the filtered frame is a view of the base frame, and the
\* columns written to it are written to the base frame too
CoprodOnBase ==
    /\ pc = "coprod"
    /\ filtered_df' = WithCoprodColumns(filtered_df)
    /\ df' = WithCoprodColumns(df)
    /\ coprod_df' = ValueCounts(filtered_df')
    /\ avg_countries' = avg_countries_charted(filtered_df')
    /\ rendered' = rendered \cup {"coprod"}
    /\ pc' = "tab3"
    /\ UNCHANGED <<file, cache, messages, all_countries, year_range,
                   selected_countries, selected_section, df_line, df_percent,
                   df_counts, selected_country, top_productoras, detail>>

\* lines 254-308; the table movies_with_country_data of lines 265-271 is
\* computed there and never drawn, and is not part of the state
Coprod ==
    /\ pc = "coprod"
    /\ filtered_df' = WithCoprodColumns(filtered_df)
    /\ coprod_df' = ValueCounts(filtered_df')
    /\ avg_countries' = avg_countries_charted(filtered_df')
    /\ rendered' = rendered \cup {"coprod"}
    /\ pc' = "tab3"
    /\ UNCHANGED <<file, cache, messages, df, all_countries, year_range,
                   selected_countries, selected_section, df_line, df_percent,
                   df_counts, selected_country, top_productoras, detail>>

\* ------------------------------------------------------------------ tab3
RECURSIVE MapStrip(_)
MapStrip(parts) ==
    IF parts = <<>> THEN <<>>
    ELSE <<strip(Head(parts))>> \o MapStrip(Tail(parts))

\* lambda x: [] if pd.isna(x) else [p.strip() for p in str(x).split(',')]
productoras_lista(x) == IF isna(x) THEN <<>> ELSE MapStrip(split(x))

RECURSIVE AllProductoras(_)
AllProductoras(rows) ==
    IF rows = <<>> THEN <<>>
    ELSE Head(rows).productoras_lista \o AllProductoras(Tail(rows))

\* mutant of most_common: the ranking is not cut to n entries
most_common_uncut(counter, n) == SortDesc(counter)

\* Counter.most_common(n)
most_common(counter, n) == FirstN(SortDesc(counter), n)

DefaultN == 10

get_top_productoras(d, country_column, country_value, n) ==
    LET country_movies ==
            BooleanIndex(d, [i \in 1..Len(d.rows) |->
                d.rows[i].flags[country_column] = country_value])
    IN  most_common(Counter(AllProductoras(country_movies.rows)), n)

\* [c for c in all_countries if c in filtered_df.columns]
CountryOptions == all_countries

Tab3 ==
    /\ pc = "tab3"
    /\ IF "productoras_consolidadas_normalized" \in filtered_df.columns
       THEN /\ filtered_df' =
                SetColumn(filtered_df, "productoras_lista",
                    [i \in 1..Len(filtered_df.rows) |->
                        productoras_lista(
                            filtered_df.rows[i]
                                .productoras_consolidadas_normalized)])
            /\ IF CountryOptions = {}
               THEN \* the selectbox has no option and returns None;
                    \* df[None] raises KeyError
                    /\ pc' = "crashed"
                    /\ UNCHANGED <<selected_country, top_productoras,
                                   rendered, messages>>
               ELSE \E c \in CountryOptions :
                        LET top == get_top_productoras(filtered_df', c, 1,
                                                       DefaultN)
                        IN  /\ selected_country' = c
                            /\ top_productoras' = top
                            /\ IF top # <<>>
                               THEN /\ rendered' = rendered \cup {"tab3"}
                                    /\ UNCHANGED messages
                               ELSE /\ messages' =
                                        messages \cup {"info_no_productoras"}
                                    /\ UNCHANGED rendered
                            /\ pc' = "tab4"
       ELSE /\ messages' = messages \cup {"warning_no_productoras_column"}
            /\ pc' = "tab4"
            /\ UNCHANGED <<filtered_df, selected_country, top_productoras,
                           rendered>>
    /\ UNCHANGED <<file, cache, df, all_countries, year_range,
                   selected_countries, selected_section, df_line, df_percent,
                   df_counts, coprod_df, avg_countries, detail>>

\* ------------------------------------------------------------------ tab4
RECURSIVE InsertYearDesc(_, _)
InsertYearDesc(sorted, x) ==
    IF sorted = <<>> THEN <<x>>
    ELSE IF Head(sorted).year >= x.year
    THEN <<Head(sorted)>> \o InsertYearDesc(Tail(sorted), x)
    ELSE <<x>> \o sorted

RECURSIVE SortYearDescFrom(_, _)
SortYearDescFrom(items, acc) ==
    IF items = <<>> THEN acc
    ELSE SortYearDescFrom(Tail(items), InsertYearDesc(acc, Head(items)))

\* the columns the table shows
DisplayColumns(d) ==
    {"title", "director", "year", "countries_for_analysis"}
    \cup (d.columns \cap {"section", "productoras_consolidadas_normalized"})

\* sort_values(['year', 'title'], ascending=[False, True]); titles are not
\* part of the model, rows of one year keep their order
Tab4 ==
    /\ pc = "tab4"
    /\ detail' =
        [columns |-> DisplayColumns(filtered_df),
         rows |-> LET sorted == SortYearDescFrom(filtered_df.rows, <<>>)
                  IN  [i \in 1..Len(sorted) |-> sorted[i].idx]]
    /\ rendered' = rendered \cup {"tab4"}
    /\ pc' = "done"
    /\ UNCHANGED <<file, cache, messages, df, all_countries, year_range,
                   selected_countries, selected_section, filtered_df, df_line,
                   df_percent, df_counts, coprod_df, avg_countries,
                   selected_country, top_productoras>>

\* ----------------------------------------------------------------- rerun
\* a widget change (or a reload) runs the script again from the top with
\* fresh globals; only the st.cache_data entry survives
Rerun ==
    /\ pc \in {"done", "stopped", "crashed"}
    /\ pc' = "load"
    /\ messages' = {}
    /\ rendered' = {}
    /\ df' = NoFrame
    /\ all_countries' = {}
    /\ year_range' = NoRange
    /\ selected_countries' = {}
    /\ selected_section' = "Todas"
    /\ filtered_df' = NoFrame
    /\ df_line' = <<>>
    /\ df_percent' = <<>>
    /\ df_counts' = <<>>
    /\ coprod_df' = <<>>
    /\ avg_countries' = <<>>
    /\ selected_country' = NoCountry
    /\ top_productoras' = <<>>
    /\ detail' = <<>>
    /\ UNCHANGED <<file, cache>>

Next ==
    \/ load_data
    \/ Sidebar
    \/ Tab1
    \/ Tab2
    \/ Coprod
    \/ Tab3
    \/ Tab4
    \/ Rerun

Spec == Init /\ [][Next]_vars

\* ================================================================ claims
\* the notions the claims are stated in

\* the index pairs of the maximal comma-free parts of a cell
Segments(s) ==
    {q \in (1..(Len(s) + 1)) \X (0..Len(s)) :
        /\ q[2] >= q[1] - 1
        /\ \A k \in q[1]..q[2] : s[k] # ","
        /\ (q[1] = 1 \/ s[q[1] - 1] = ",")
        /\ (q[2] = Len(s) \/ s[q[2] + 1] = ",")}

\* the set of distinct normalized (trimmed, title-cased) country names of a
\* countries cell; a missing, empty or blank cell has none
CountrySet(cell) ==
    IF cell = NA THEN {}
    ELSE {title(strip(SubSeq(cell, q[1], q[2]))) :
            q \in {r \in Segments(cell) :
                      strip(SubSeq(cell, r[1], r[2])) # <<>>}}

\* the filters have been applied in this run
Filtered == year_range # NoRange

\* the rows of the filtered frame that have the flag of country c set
Matching(c) == SelectSeq(filtered_df.rows, LAMBDA r : r.flags[c] = 1)

NonIncreasing(ranking) ==
    \A k \in 1..(Len(ranking) - 1) : ranking[k].n >= ranking[k + 1].n

\* C1: every per-record count of countries (total_movies at load,
\* num_countries in the co-production view) equals the number of distinct
\* normalized country names of the record's countries cell.
C1_CountsAreDistinctCounts ==
    /\ \A i \in 1..Len(df.rows) :
          df.rows[i].total_movies = Cardinality(CountrySet(df.rows[i].countries))
    /\ "num_countries" \in filtered_df.columns =>
          \A i \in 1..Len(filtered_df.rows) :
              filtered_df.rows[i].num_countries =
                  Cardinality(CountrySet(filtered_df.rows[i].countries_for_analysis))

\* C2: the charted per-year mean counts, in numerator and denominator, only
\* the filtered records that have at least one country; a record whose
\* countries cell is missing, empty or blank contributes to neither.
C2_MeanExcludesRecordsWithoutCountries ==
    "coprod" \in rendered =>
        \A y \in DOMAIN avg_countries :
            LET with == SelectSeq(RowsOfYear(filtered_df.rows, y),
                            LAMBDA r : CountrySet(r.countries_for_analysis) # {})
            IN  /\ avg_countries[y].count = Len(with)
                /\ avg_countries[y].sum = NumCountriesSum(with)

\* C3: the filtered records are exactly the base records whose year lies in
\* the selected range and, when a section other than 'Todas' is selected,
\* whose section is the selected one, whatever countries are selected.
C3_FilteredIsYearAndSection ==
    Filtered =>
        LET wanted ==
              {i \in 1..Len(df.rows) :
                  /\ year_range[1] <= df.rows[i].year
                  /\ df.rows[i].year <= year_range[2]
                  /\ (selected_section = "Todas"
                      \/ df.rows[i].section = selected_section)}
        IN  /\ {filtered_df.rows[k].idx : k \in 1..Len(filtered_df.rows)} = wanted
            /\ Len(filtered_df.rows) = Cardinality(wanted)

C3_Witness ==
    /\ pc = "tab1"
    /\ selected_section # "Todas"
    /\ selected_countries # {}
    /\ filtered_df.rows # <<>>
    /\ Len(filtered_df.rows) < Len(df.rows)

\* C4: the count the geographic view reports for a country is the sum of
\* that country's flag over the filtered records, the ranking is in
\* non-increasing order of count and the chart takes its first 15 rows.
C4_GeoCountsAreFlagSums ==
    "tab2" \in rendered =>
        /\ \A k \in 1..Len(df_counts) :
              df_counts[k].n = FlagSum(filtered_df.rows, df_counts[k].key)
        /\ NonIncreasing(df_counts)
        /\ fig_bars = FirstN(df_counts, TopCountries)

\* C5: in every year of the filtered data in which some selected country
\* has a nonzero count, each share is 100 times the country's flag sum over
\* the year's total of the selected countries, and the shares sum to 100.
C5_SharesSumTo100 ==
    "tab1" \in rendered =>
        \A y \in DOMAIN df_percent :
            (\E c \in selected_countries : df_line[y][c] > 0) =>
                LET rows == RowsOfYear(filtered_df.rows, y)
                    total == SetSum([c \in selected_countries |->
                                        FlagSum(rows, c)], selected_countries)
                    nums == [c \in selected_countries |-> df_percent[y][c].num]
                IN  /\ total > 0
                    /\ \A c \in selected_countries :
                          /\ df_percent[y][c].den = total
                          /\ df_percent[y][c].num = 100 * FlagSum(rows, c)
                    /\ SetSum(nums, selected_countries) = 100 * total

C5_Witness ==
    /\ pc = "tab2"
    /\ \E y \in DOMAIN df_percent :
          \E c1, c2 \in selected_countries :
              /\ df_line[y][c1] > df_line[y][c2]
              /\ df_line[y][c2] > 0

\* C6: after a successful load the vocabulary is exactly the union of the
\* records' country sets, and a record's flag for a country is 1 exactly
\* when the country is in the record's set.
C6_VocabularyIsUnionOfCountrySets ==
    (cache.filled /\ pc # "load") =>
        /\ \A c \in all_countries :
              \E i \in 1..Len(df.rows) : c \in CountrySet(df.rows[i].countries)
        /\ \A i \in 1..Len(df.rows) :
              /\ CountrySet(df.rows[i].countries) \subseteq all_countries
              /\ DOMAIN df.rows[i].flags = all_countries
              /\ \A c \in all_countries :
                    (df.rows[i].flags[c] = 1) <=>
                        (c \in CountrySet(df.rows[i].countries))
              /\ \A c \in all_countries : df.rows[i].flags[c] \in {0, 1}

C6_Witness ==
    /\ pc = "sidebar"
    /\ Cardinality(all_countries) >= 2
    /\ \E i \in 1..Len(df.rows) : \E c1, c2 \in all_countries :
          df.rows[i].flags[c1] = 1 /\ df.rows[i].flags[c2] = 0

\* C7: when the file is missing or has no 'countries' column, the run ends
\* at load_data with the error shown: nothing is derived or cached, no
\* filter is applied and no view is rendered.
C7_StructuralErrorIsTerminal ==
    (~file.exists \/ "countries" \notin file.columns) =>
        /\ pc \in {"load", "stopped"}
        /\ pc = "stopped" =>
              IF file.exists
              THEN "error_no_countries_column" \in messages
              ELSE "error_file_not_found" \in messages
        /\ ~cache.filled
        /\ df = NoFrame
        /\ all_countries = {}
        /\ ~Filtered
        /\ filtered_df = NoFrame
        /\ rendered = {}

C7_Witness ==
    /\ pc = "stopped"
    /\ file.exists
    /\ "countries" \notin file.columns
    /\ "error_no_countries_column" \in messages

C9_AbsenceOfDataIsLocal ==
    (cache.filled /\ file.rows # <<>>) => pc # "crashed"

ViewColumns == {"num_countries", "has_country_data", "productoras_lista"}

\* C10: once loaded, the cached dataset never changes, the base frame of a
\* run is the loaded one from load_data to the end of the run, and the
\* columns the views add are never columns of the base frame.
C10_BaseNeverMutated ==
    [][/\ cache.filled => cache' = cache
       /\ (pc # "load" /\ pc' # "load") => df' = df
       /\ (cache'.filled /\ pc' \notin {"load", "stopped"}) => df' = cache'.df
       /\ df'.columns \cap ViewColumns = {}]_vars

C10_Witness ==
    /\ pc = "done"
    /\ ViewColumns \subseteq filtered_df.columns
    /\ filtered_df.rows # <<>>
    /\ df = cache.df
    /\ df.columns \cap ViewColumns = {}

====
